---- MODULE Spec2Model ----
(***************************************************************************)
(* Student-records backend (src/main.py): a FastAPI service that stores    *)
(* rows in a Google Sheet inside a Drive folder, with a process-wide OAuth *)
(* credential slot and a service-account fallback.                         *)
(*                                                                         *)
(* The Drive/Sheets backend is modelled as one store `files` seen by both  *)
(* kinds of credential.  Spec runs the HTTP handlers one after another,    *)
(* each as one atomic step; SpecConc runs /test requests of several        *)
(* threads interleaved at the level of the backend calls and of the reads  *)
(* of the global OAUTH_CREDS.                                              *)
(***************************************************************************)
EXTENDS Integers, Sequences, FiniteSets, TLC

\* ---------------------------------------------------------------- bounds
MaxFiles == 3      \* files the store may hold
MaxRows  == 3      \* rows a spreadsheet may hold (header included)

\* ------------------------------------------------------------- constants
FOLDER_NAME == "Don't_Delete_This"
SHEET_TITLE == "Student_Records"
HEADER      == <<"Name", "Class", "Roll No", "Subject", "Saved At">>

FolderMime == "application/vnd.google-apps.folder"
SheetMime  == "application/vnd.google-apps.spreadsheet"
Root       == 0    \* id of "My Drive", the default parent of a new file

\* Request payloads: the four text fields of Record; "" is the text that
\* Field(min_length=1) rejects.
Names   == {"Alice", "Bob", ""}
Payloads == [name : Names, klass : {"5A"}, rollno : {"12"}, subject : {"Math"}]
GoodPayloads == {p \in Payloads : p.name # ""}
\* Batch payloads: the lists of zero, one or two acceptable records, and
\* the lists of one record, acceptable or not.
BatchSizes == {0, 1, 2}
Batches == UNION {[1..n -> GoodPayloads] : n \in BatchSizes}
               \cup {<<p>> : p \in Payloads}

\* The readings of the wall clock: two instants, so that rows written at
\* different times differ in their timestamp.
Instants == {0, 1}

\* Threads serving requests in SpecConc.
Requests == {"r1", "r2"}

VARIABLES
    OAUTH_CREDS,   \* the module-level credential slot
    sa_json,       \* GOOGLE_SERVICE_ACCOUNT_JSON is set
    files,         \* the Drive store: file id -> metadata and cell values
    clock,         \* the wall clock read by datetime.utcnow()
    resp,          \* the last HTTP response of Spec, with what produced it
    reqs,          \* per thread: position and locals of its /test request
    overlapped     \* two requests have been in flight at the same time

vars == <<OAUTH_CREDS, sa_json, files, clock,
          resp, reqs, overlapped>>

\* ------------------------------------------------------------ credentials
\* A google.oauth2 Credentials object, or None (present = FALSE).  A
\* credential produced by fetch_token always carries a token, so it is
\* valid exactly when it is not expired.
NoCreds == [present |-> FALSE, expired |-> FALSE, refresh_token |-> FALSE]
UserCreds(rt) == [present |-> TRUE, expired |-> FALSE, refresh_token |-> rt]

Valid(c) == c.present /\ ~c.expired

\* Credentials.refresh: on success the same object becomes valid again.
Refreshed(c) == [c EXCEPT !.expired = FALSE]

\* The resolver with a failed refresh discarding the stored credential.
get_google_services_DropsOnFailure(creds, sa, refreshOk) ==
    IF creds.present /\ ~creds.expired
    THEN [kind |-> "user", creds |-> creds, refreshTried |-> FALSE]
    ELSE LET tryRefresh == creds.present /\ creds.expired /\ creds.refresh_token
             kept == IF tryRefresh THEN NoCreds ELSE creds
         IN  IF tryRefresh /\ refreshOk
             THEN [kind |-> "user", creds |-> Refreshed(creds), refreshTried |-> TRUE]
             ELSE IF ~sa
                  THEN [kind |-> "unauthorized", creds |-> kept, refreshTried |-> tryRefresh]
                  ELSE [kind |-> "sa", creds |-> kept, refreshTried |-> tryRefresh]

\* get_google_services run without interruption.  refreshOk is whether the
\* token endpoint honours a refresh.  kind: "user" (clients built from the
\* stored credential), "sa" (service account) or "unauthorized" (the 401).
get_google_services(creds, sa, refreshOk) ==
    IF creds.present /\ Valid(creds)
    THEN [kind |-> "user", creds |-> creds, refreshTried |-> FALSE]
    ELSE LET tryRefresh == creds.present /\ creds.expired /\ creds.refresh_token
         IN  IF tryRefresh /\ refreshOk
             THEN [kind |-> "user", creds |-> Refreshed(creds), refreshTried |-> TRUE]
             ELSE IF ~sa
                  THEN [kind |-> "unauthorized", creds |-> creds, refreshTried |-> tryRefresh]
                  ELSE [kind |-> "sa", creds |-> creds, refreshTried |-> tryRefresh]

\* The "authenticated" field auth_status computes.
Authenticated(creds) == creds.present /\ Valid(creds)

\* ------------------------------------------------------- the Drive store
\* files is a sequence; a file's id is its index.
NewFile(name, mime) ==
    [name |-> name, mimeType |-> mime, parents |-> {Root}, trashed |-> FALSE,
     values |-> <<>>]

\* The folder query without its `trashed = false`.
FolderMatches_WithTrashed(fs) ==
    {i \in DOMAIN fs : fs[i].name = FOLDER_NAME /\ fs[i].mimeType = FolderMime}

\* The folder query asking for the wrong mimeType.
FolderMatches_WrongMime(fs) ==
    {i \in DOMAIN fs : fs[i].name = FOLDER_NAME /\ fs[i].mimeType = SheetMime
                       /\ ~fs[i].trashed}

\* files().list with ensure_folder's query.
FolderMatches(fs) ==
    {i \in DOMAIN fs : fs[i].name = FOLDER_NAME /\ fs[i].mimeType = FolderMime
                       /\ ~fs[i].trashed}

\* files().create of the folder; the new id is Len(fs) + 1.
CreateFolder(fs) == Append(fs, NewFile(FOLDER_NAME, FolderMime))

\* files().list with ensure_sheet_in_folder's query.
SheetMatches(fs, folder_id) ==
    {i \in DOMAIN fs : fs[i].name = SHEET_TITLE /\ fs[i].mimeType = SheetMime
                       /\ folder_id \in fs[i].parents /\ ~fs[i].trashed}

\* spreadsheets().create: an empty spreadsheet under the default parent.
CreateSheet(fs) == Append(fs, NewFile(SHEET_TITLE, SheetMime))

\* files().update(addParents=folder_id, removeParents="").
MoveSheet(fs, sheet_id, folder_id) ==
    [fs EXCEPT ![sheet_id].parents = @ \cup {folder_id}]

\* values().update(range="A1:E1", body={"values": [HEADER]}).
WriteHeader(fs, sheet_id) ==
    [fs EXCEPT ![sheet_id].values =
        IF @ = <<>> THEN <<HEADER>> ELSE [@ EXCEPT ![1] = HEADER]]

\* values().append(range="A:E", INSERT_ROWS): the rows go below the last
\* row of the table found in A:E, which on an empty sheet starts at row 1.
AppendValues(fs, sheet_id, rows) ==
    [fs EXCEPT ![sheet_id].values = @ \o rows]

\* values().get(range="A2:E"): everything below row 1.
GetValues(fs, sheet_id) ==
    IF fs[sheet_id].values = <<>> THEN <<>> ELSE Tail(fs[sheet_id].values)

\* --------------------------------------------------- resource provisioner
\* Every backend call either raises HttpError or succeeds.  An outcome of a
\* routine is what it leaves behind: ok (returned, not raised), the store,
\* the id returned and the number of backend calls issued so far.
Outcome(ok, fs, id, calls) == [ok |-> ok, fs |-> fs, id |-> id, calls |-> calls]

\* ensure_folder.  files[0] is whichever match the listing puts first.
ensure_folder(fs, calls) ==
    {Outcome(FALSE, fs, 0, calls + 1)} \cup
    IF FolderMatches(fs) # {}
    THEN {Outcome(TRUE, fs, i, calls + 1) : i \in FolderMatches(fs)}
    ELSE {Outcome(FALSE, fs, 0, calls + 2),
          Outcome(TRUE, CreateFolder(fs), Len(fs) + 1, calls + 2)}

\* ensure_sheet_in_folder: list, else create, move into the folder, header.
ensure_sheet_in_folder(fs, folder_id, calls) ==
    {Outcome(FALSE, fs, 0, calls + 1)} \cup
    IF SheetMatches(fs, folder_id) # {}
    THEN {Outcome(TRUE, fs, i, calls + 1) : i \in SheetMatches(fs, folder_id)}
    ELSE LET sheet_id == Len(fs) + 1
             created  == CreateSheet(fs)
             moved    == MoveSheet(created, sheet_id, folder_id)
         IN  {Outcome(FALSE, fs, 0, calls + 2),
              Outcome(FALSE, created, 0, calls + 3),
              Outcome(FALSE, moved, 0, calls + 4),
              Outcome(TRUE, WriteHeader(moved, sheet_id), sheet_id, calls + 4)}

\* The two ensure calls every data handler makes, in order.
Located(ok, fs, folder_id, sheet_id, calls) ==
    [ok |-> ok, fs |-> fs, folder_id |-> folder_id, sheet_id |-> sheet_id,
     calls |-> calls]

Provision(fs) ==
    UNION {IF ~f.ok
           THEN {Located(FALSE, f.fs, 0, 0, f.calls)}
           ELSE {Located(s.ok, s.fs, f.id, s.id, s.calls) :
                     s \in ensure_sheet_in_folder(f.fs, f.id, f.calls)}
           : f \in ensure_folder(fs, 0)}

\* ------------------------------------------------------------ record gateway
\* datetime.utcnow().isoformat() at clock reading t.
IsoFormat(t) == "2024-01-01T00:00:0" \o ToString(t)

\* pydantic's check of Record: every field has min_length 1.
ValidPayload(p) == p.name # "" /\ p.klass # "" /\ p.rollno # "" /\ p.subject # ""

\* The row add_record and add_records build for one record.
RowOf(p, now) == <<p.name, p.klass, p.rollno, p.subject, now>>

\* The batch with utcnow() read once per row, the clock moving in between.
BatchValues_PerRowClock(batch, t) ==
    [i \in 1..Len(batch) |-> RowOf(batch[i], IsoFormat(t + i - 1))]

\* add_records: one `now` for the whole batch.
BatchValues(batch, t) == [i \in 1..Len(batch) |-> RowOf(batch[i], IsoFormat(t))]

\* list_records: a row becomes an item, absent trailing cells become "".
Cell(r, i) == IF Len(r) >= i THEN r[i] ELSE ""
ToItem(r) ==
    [name |-> Cell(r, 1), class |-> Cell(r, 2), rollno |-> Cell(r, 3),
     subject |-> Cell(r, 4), saved_at |-> Cell(r, 5)]
ToItems(rows) == [i \in 1..Len(rows) |-> ToItem(rows[i])]

\* The except clauses of the data handlers: HttpError becomes a 500, and so
\* does every other Exception, the handler's own HTTPException included.
RequestBoundary(exc) ==
    IF exc.type = "HttpError" THEN 500 ELSE 500

HttpError == [type |-> "HttpError", status_code |-> 0]
AttributeError == [type |-> "AttributeError", status_code |-> 0]
HTTPException(code) == [type |-> "HTTPException", status_code |-> code]

\* ------------------------------------------------------------- responses
\* The response of the handler that ran in the step leading to this state,
\* with its inputs and what it did on the way; NoResp after a step of the
\* environment.  n is the number of records submitted; batch is the
\* records themselves, kept when the handler answered 200.
NoResp ==
    [op |-> "none", status |-> 0, kind |-> "none", pre |-> NoCreds,
     refreshTried |-> FALSE, refreshOk |-> FALSE, calls |-> 0,
     folder_id |-> 0, sheet_id |-> 0, n |-> 0, batch |-> <<>>, now |-> 0,
     count |-> 0, items |-> <<>>, authenticated |-> FALSE]

Plain(op, status) == [NoResp EXCEPT !.op = op, !.status = status]

\* The resolver's part of a data handler's response.
Resolved(op, batch, g, refreshOk) ==
    [NoResp EXCEPT !.op = op, !.n = Len(batch), !.kind = g.kind,
                   !.pre = OAUTH_CREDS, !.refreshTried = g.refreshTried,
                   !.refreshOk = g.refreshTried /\ refreshOk]

\* The store stays within the bounds of the model.
WithinBounds(fs) ==
    /\ Len(fs) <= MaxFiles
    /\ \A i \in DOMAIN fs : Len(fs[i].values) <= MaxRows

\* The last backend call of a data handler, after the provisioning `loc`
\* returned: nothing for /test, values().append for the two add handlers,
\* values().get for list_records.  Each result is the response fields and
\* the store left behind.
LastCall(op, loc, rows) ==
    LET base == [ok |-> TRUE, fs |-> loc.fs, calls |-> loc.calls,
                 count |-> 0, items |-> <<>>]
        failed == [base EXCEPT !.ok = FALSE, !.calls = loc.calls + 1]
    IN  CASE op = "test_services" -> {base}
          [] op \in {"add_record", "add_records"} ->
                {failed,
                 [base EXCEPT !.fs = AppendValues(loc.fs, loc.sheet_id, rows),
                              !.calls = loc.calls + 1, !.count = Len(rows)]}
          [] op = "list_records" ->
                {failed,
                 [base EXCEPT !.calls = loc.calls + 1,
                              !.items = ToItems(GetValues(loc.fs, loc.sheet_id))]}

\* What the token endpoint may answer to a refresh: only a credential that
\* get_google_services would refresh has two answers.
RefreshResults(creds) ==
    IF creds.present /\ creds.expired /\ creds.refresh_token
    THEN BOOLEAN ELSE {FALSE}

\* The body of the try block shared by the four data handlers:
\* get_google_services, ensure_folder, ensure_sheet_in_folder, then the
\* handler's own call, and the except clauses around them.
DataHandler(op, batch) ==
    \E refreshOk \in RefreshResults(OAUTH_CREDS) :
        LET g == get_google_services(OAUTH_CREDS, sa_json, refreshOk)
            r == Resolved(op, batch, g, refreshOk)
        IN  /\ OAUTH_CREDS' = g.creds
            /\ IF g.kind = "unauthorized"
               THEN /\ resp' = [r EXCEPT !.status = RequestBoundary(HTTPException(401))]
                    /\ files' = files
               ELSE \E loc \in Provision(files) :
                      IF ~loc.ok
                      THEN /\ WithinBounds(loc.fs)
                           /\ files' = loc.fs
                           /\ resp' = [r EXCEPT !.status = RequestBoundary(HttpError),
                                                !.calls = loc.calls]
                      ELSE \E c \in LastCall(op, loc, BatchValues(batch, clock)) :
                             /\ WithinBounds(c.fs)
                             /\ files' = c.fs
                             /\ resp' = [r EXCEPT
                                    !.status = IF c.ok THEN 200
                                               ELSE RequestBoundary(HttpError),
                                    !.calls = c.calls,
                                    !.folder_id = loc.folder_id,
                                    !.sheet_id = loc.sheet_id,
                                    !.batch = IF c.ok THEN batch ELSE <<>>,
                                    !.now = clock,
                                    !.count = c.count,
                                    !.items = c.items]
    /\ UNCHANGED <<sa_json, clock, reqs, overlapped>>

\* A payload pydantic rejects never reaches the handler: 422.
Rejected(op, batch) ==
    /\ resp' = [Plain(op, 422) EXCEPT !.n = Len(batch)]
    /\ UNCHANGED <<OAUTH_CREDS, sa_json, files,
                   clock, reqs, overlapped>>

\* GET /test
test_services == DataHandler("test_services", <<>>)

\* POST /api/records
add_record ==
    \E p \in Payloads :
        IF ValidPayload(p) THEN DataHandler("add_record", <<p>>)
        ELSE Rejected("add_record", <<p>>)

\* POST /api/records/batch
add_records ==
    \E batch \in Batches :
        IF \E i \in DOMAIN batch : ~ValidPayload(batch[i])
        THEN Rejected("add_records", batch)
        ELSE IF batch = <<>>
        THEN /\ resp' = [Plain("add_records", RequestBoundary(HTTPException(400)))
                            EXCEPT !.n = Len(batch)]
             /\ UNCHANGED <<OAUTH_CREDS, sa_json,
                            files, clock, reqs, overlapped>>
        ELSE DataHandler("add_records", batch)

\* GET /api/records
list_records == DataHandler("list_records", <<>>)

\* The callback with its except clause emptying the slot.
CallbackCreds_ClearsOnFailure(creds) ==
    {[status |-> 400, creds |-> NoCreds]} \cup
    {[status |-> 200, creds |-> UserCreds(rt)] : rt \in BOOLEAN}

\* The callback's outcomes on the slot.  get_oauth_flow or fetch_token
\* raises (client not configured, code rejected): the 400 page, slot as it
\* was.  Otherwise flow.credentials, with or without a refresh token,
\* replaces the slot's content.
CallbackCreds(creds) ==
    {[status |-> 400, creds |-> creds]} \cup
    {[status |-> 200, creds |-> UserCreds(rt)] : rt \in BOOLEAN}

\* GET /auth/google/callback
google_oauth_callback ==
    /\ \E o \in CallbackCreds(OAUTH_CREDS) :
          /\ OAUTH_CREDS' = o.creds
          /\ resp' = Plain("google_oauth_callback", o.status)
    /\ UNCHANGED <<sa_json, files, clock, reqs, overlapped>>

\* GET /auth/status
auth_status ==
    /\ resp' = [Plain("auth_status", 200) EXCEPT
                    !.authenticated = Authenticated(OAUTH_CREDS)]
    /\ UNCHANGED <<OAUTH_CREDS, sa_json, files,
                   clock, reqs, overlapped>>

\* A logout that forgets its `global` and leaves the slot as it was.
LoggedOut_Keeps(creds) == creds

\* The slot after auth_logout.
LoggedOut(creds) == NoCreds

\* POST /auth/logout
auth_logout ==
    /\ OAUTH_CREDS' = LoggedOut(OAUTH_CREDS)
    /\ resp' = [Plain("auth_logout", 200) EXCEPT !.pre = OAUTH_CREDS]
    /\ UNCHANGED <<sa_json, files, clock, reqs, overlapped>>

\* ------------------------------------------------------------ environment
\* Time passes: the clock advances.
Tick ==
    /\ clock + 1 \in Instants
    /\ clock' = clock + 1
    /\ resp' = NoResp
    /\ UNCHANGED <<OAUTH_CREDS, sa_json, files,
                   reqs, overlapped>>

\* Time passes: the stored credential's token reaches its expiry.
Expire ==
    /\ Valid(OAUTH_CREDS)
    /\ OAUTH_CREDS' = [OAUTH_CREDS EXCEPT !.expired = TRUE]
    /\ resp' = NoResp
    /\ UNCHANGED <<sa_json, files, clock, reqs, overlapped>>

\* ------------------------------------------------------------------- Init
\* The Drive the process starts against: empty, or holding a trashed
\* folder of the target name.
TrashedFolder == [NewFile(FOLDER_NAME, FolderMime) EXCEPT !.trashed = TRUE]
InitStores == {<<>>, <<TrashedFolder>>}

\* A thread's locals: pc is the line of test_services (and of what it
\* calls) it is about to run; drive and sheets are the credentials its two
\* clients were built from ("None" when build() was handed None); raced is
\* whether a logout ran while the request was in flight.  The locals die
\* with the request.
IdleReq == [pc |-> "idle", drive |-> "unset", sheets |-> "unset",
            folder_id |-> 0, sheet_id |-> 0, raced |-> FALSE]

Init ==
    /\ OAUTH_CREDS = NoCreds
    /\ sa_json \in BOOLEAN
    /\ files \in InitStores
    /\ clock = 0
    /\ resp = NoResp
    /\ reqs = [r \in Requests |-> IdleReq]
    /\ overlapped = FALSE

\* ------------------------------------------------ interleaved /test requests
\* What build(..., credentials=OAUTH_CREDS) is handed.
Handed(creds) == IF creds.present THEN "user" ELSE "None"

\* A request is in flight from its first step to its response.
InFlight(q) == q.pc # "idle"

Goto(r, pc) == reqs' = [reqs EXCEPT ![r].pc = pc] /\ resp' = resp
\* The request ends with status `code`, returned or raised; the thread is
\* at rest again.
Respond(r, code) == reqs' = [reqs EXCEPT ![r] = IdleReq] /\ resp' = resp
Raise(r, code) == Respond(r, code)
At(r, pc) == reqs[r].pc = pc
Slot == <<OAUTH_CREDS, sa_json, clock>>

\* A thread picks up a GET /test.
Start(r) ==
    /\ At(r, "idle")
    /\ reqs' = [reqs EXCEPT ![r] = [IdleReq EXCEPT !.pc = "L54a"]]
    /\ resp' = resp
    /\ overlapped' = (overlapped \/ \E q \in Requests \ {r} : InFlight(reqs[q]))
    /\ UNCHANGED <<Slot, files>>

\* line 54, `OAUTH_CREDS and ...`: the first load of the global.
L54a(r) ==
    /\ At(r, "L54a")
    /\ Goto(r, IF OAUTH_CREDS.present THEN "L54b" ELSE "L60a")
    /\ UNCHANGED <<Slot, files, overlapped>>

\* line 54, `... and OAUTH_CREDS.valid`: the second load; None has no
\* attribute valid, and the AttributeError reaches the handler's except.
L54b(r) ==
    /\ At(r, "L54b")
    /\ IF ~OAUTH_CREDS.present THEN Raise(r, RequestBoundary(AttributeError))
       ELSE IF Valid(OAUTH_CREDS)
            THEN Goto(r, "L55")
            ELSE Goto(r, "L60a")
    /\ UNCHANGED <<Slot, files, overlapped>>

\* lines 55 and 63: build("drive", ...) from the global as it is now.
BuildDrive(r) ==
    /\ reqs[r].pc \in {"L55", "L63"}
    /\ reqs' = [reqs EXCEPT ![r].drive = Handed(OAUTH_CREDS),
                            ![r].pc = IF At(r, "L55") THEN "L56" ELSE "L64"]
    /\ resp' = resp
    /\ UNCHANGED <<Slot, files, overlapped>>

\* lines 56 and 64: build("sheets", ...), then return to the handler.
BuildSheets(r) ==
    /\ reqs[r].pc \in {"L56", "L64"}
    /\ reqs' = [reqs EXCEPT ![r].sheets = Handed(OAUTH_CREDS), ![r].pc = "L85"]
    /\ resp' = resp
    /\ UNCHANGED <<Slot, files, overlapped>>

\* line 60: three more loads of the global, one per conjunct.
L60a(r) ==
    /\ At(r, "L60a")
    /\ Goto(r, IF OAUTH_CREDS.present THEN "L60b" ELSE "L70")
    /\ UNCHANGED <<Slot, files, overlapped>>

L60b(r) ==
    /\ At(r, "L60b")
    /\ IF ~OAUTH_CREDS.present THEN Raise(r, RequestBoundary(AttributeError))
       ELSE Goto(r, IF OAUTH_CREDS.expired THEN "L60c" ELSE "L70")
    /\ UNCHANGED <<Slot, files, overlapped>>

L60c(r) ==
    /\ At(r, "L60c")
    /\ IF ~OAUTH_CREDS.present THEN Raise(r, RequestBoundary(AttributeError))
       ELSE Goto(r, IF OAUTH_CREDS.refresh_token THEN "L62" ELSE "L70")
    /\ UNCHANGED <<Slot, files, overlapped>>

\* line 62, inside the try: refresh whatever the global holds now.  None
\* has no refresh, a refusal raises: both are swallowed by line 66.
L62(r) ==
    /\ At(r, "L62")
    /\ \/ /\ OAUTH_CREDS.present
          /\ OAUTH_CREDS' = Refreshed(OAUTH_CREDS)
          /\ Goto(r, "L63")
       \/ /\ OAUTH_CREDS' = OAUTH_CREDS
          /\ Goto(r, "L70")
    /\ UNCHANGED <<sa_json, clock, files, overlapped>>

\* lines 70-79: the service account, or the 401 that the handler's except
\* turns into its own response.
L70(r) ==
    /\ At(r, "L70")
    /\ IF ~sa_json THEN Raise(r, RequestBoundary(HTTPException(401)))
       ELSE /\ reqs' = [reqs EXCEPT ![r].pc = "L85", ![r].drive = "sa",
                                    ![r].sheets = "sa"]
            /\ resp' = resp
    /\ UNCHANGED <<Slot, files, overlapped>>

\* ensure_folder, line 85: the listing.
L85(r) ==
    /\ At(r, "L85")
    /\ IF FolderMatches(files) # {}
       THEN \E i \in FolderMatches(files) :
                /\ reqs' = [reqs EXCEPT ![r].folder_id = i, ![r].pc = "L101"]
                /\ resp' = resp
       ELSE Goto(r, "L94")
    /\ UNCHANGED <<Slot, files, overlapped>>

\* ensure_folder, line 94: the create.
L94(r) ==
    /\ At(r, "L94")
    /\ WithinBounds(CreateFolder(files))
    /\ files' = CreateFolder(files)
    /\ reqs' = [reqs EXCEPT ![r].folder_id = Len(files) + 1, ![r].pc = "L101"]
    /\ resp' = resp
    /\ UNCHANGED <<Slot, overlapped>>

\* ensure_sheet_in_folder, line 101: the listing; a match ends the handler.
L101(r) ==
    /\ At(r, "L101")
    /\ IF SheetMatches(files, reqs[r].folder_id) # {}
       THEN Respond(r, 200)
       ELSE Goto(r, "L109")
    /\ UNCHANGED <<Slot, files, overlapped>>

\* line 109: the create.
L109(r) ==
    /\ At(r, "L109")
    /\ WithinBounds(CreateSheet(files))
    /\ files' = CreateSheet(files)
    /\ reqs' = [reqs EXCEPT ![r].sheet_id = Len(files) + 1, ![r].pc = "L112"]
    /\ resp' = resp
    /\ UNCHANGED <<Slot, overlapped>>

\* line 112: the move into the folder.
L112(r) ==
    /\ At(r, "L112")
    /\ files' = MoveSheet(files, reqs[r].sheet_id, reqs[r].folder_id)
    /\ Goto(r, "L114")
    /\ UNCHANGED <<Slot, overlapped>>

\* line 114: the header, after which the handler returns.
L114(r) ==
    /\ At(r, "L114")
    /\ files' = WriteHeader(files, reqs[r].sheet_id)
    /\ Respond(r, 200)
    /\ UNCHANGED <<Slot, overlapped>>

\* The lines that call the backend or build a client from it.
BackendLines == {"L55", "L56", "L85", "L94", "L101", "L109", "L112", "L114"}

\* Any of those calls may raise instead; inside the resolver's try (lines
\* 63, 64) the exception is swallowed and the service account is next.
CallRaises(r) ==
    /\ \/ /\ reqs[r].pc \in BackendLines
          /\ Raise(r, RequestBoundary(HttpError))
       \/ /\ reqs[r].pc \in {"L63", "L64"}
          /\ Goto(r, "L70")
    /\ UNCHANGED <<Slot, files, overlapped>>

Step(r) ==
    \/ Start(r)
    \/ L54a(r) \/ L54b(r)
    \/ BuildDrive(r) \/ BuildSheets(r)
    \/ L60a(r) \/ L60b(r) \/ L60c(r)
    \/ L62(r)
    \/ L70(r)
    \/ L85(r) \/ L94(r)
    \/ L101(r) \/ L109(r) \/ L112(r) \/ L114(r)
    \/ CallRaises(r)

\* The handlers that store to the global, run by another thread: each is
\* one atomic store.  A logout marks the requests in flight.
Callback ==
    /\ \E o \in CallbackCreds(OAUTH_CREDS) : OAUTH_CREDS' = o.creds
    /\ UNCHANGED <<sa_json, clock, resp, files, reqs, overlapped>>

Logout ==
    /\ OAUTH_CREDS' = LoggedOut(OAUTH_CREDS)
    /\ reqs' = [r \in Requests |->
                    IF InFlight(reqs[r]) THEN [reqs[r] EXCEPT !.raced = TRUE]
                    ELSE reqs[r]]
    /\ UNCHANGED <<sa_json, clock, resp, files, overlapped>>

TokenExpires ==
    /\ Valid(OAUTH_CREDS)
    /\ OAUTH_CREDS' = [OAUTH_CREDS EXCEPT !.expired = TRUE]
    /\ UNCHANGED <<sa_json, clock, resp, files, reqs, overlapped>>

NextConc ==
    \/ \E r \in Requests : Step(r)
    \/ Callback
    \/ Logout
    \/ TokenExpires

\* The interleaved requests start against an empty Drive.
InitConc == Init /\ files = <<>>

SpecConc == InitConc /\ [][NextConc]_vars

Next ==
    \/ test_services
    \/ add_record
    \/ add_records
    \/ list_records
    \/ google_oauth_callback
    \/ auth_status
    \/ auth_logout
    \/ Tick
    \/ Expire

Spec == Init /\ [][Next]_vars

\* ================================================================ claims
DataOps == {"test_services", "add_record", "add_records", "list_records"}

\* The folders and sheets a claim speaks of, read off the store directly.
TargetFolders(fs) ==
    {i \in DOMAIN fs : fs[i].name = "Don't_Delete_This"
                       /\ fs[i].mimeType = FolderMime /\ ~fs[i].trashed}
TargetSheets(fs, f) ==
    {i \in DOMAIN fs : fs[i].name = "Student_Records"
                       /\ fs[i].mimeType = SheetMime /\ ~fs[i].trashed
                       /\ f \in fs[i].parents}

\* The values of file i, <<>> when the store has no such file.
ValuesOf(fs, i) == IF i \in DOMAIN fs THEN fs[i].values ELSE <<>>

\* What a list_records that meets no failure returns on store fs.
WouldList(fs) ==
    {ToItems(GetValues(loc.fs, loc.sheet_id)) :
        loc \in {l \in Provision(fs) : l.ok}}

\* C1: POST /api/records/batch with an empty list answers 400, calls no
\* backend and appends nothing.
C1_EmptyBatchIs400 ==
    (resp.op = "add_records" /\ resp.n = 0)
        => (resp.status = 400 /\ resp.calls = 0)

\* C2: with no stored credential and no service-account secret, a data
\* operation answers with the resolver's 401 and calls no backend.
C2_UnauthorizedIs401 ==
    (resp.op \in DataOps /\ resp.kind # "none" /\ ~resp.pre.present /\ ~sa_json)
        => (resp.status = 401 /\ resp.calls = 0)

\* C3: a successful add_record makes list_records return what it would have
\* returned before, followed by one item equal to the submitted fields with
\* a non-empty saved_at.
C3_AppendedLast ==
    [][(resp'.op = "add_record" /\ resp'.status = 200) =>
        \A before \in WouldList(files) : \A after \in WouldList(files') :
            /\ Len(after) = Len(before) + 1
            /\ SubSeq(after, 1, Len(before)) = before
            /\ after[Len(after)].name = resp'.batch[1].name
            /\ after[Len(after)].class = resp'.batch[1].klass
            /\ after[Len(after)].rollno = resp'.batch[1].rollno
            /\ after[Len(after)].subject = resp'.batch[1].subject
            /\ after[Len(after)].saved_at # ""]_vars

\* C4: a successful add_records of N >= 1 records returns count N and adds
\* exactly the N rows, in the order submitted, with one saved_at, below what
\* the sheet held; a failed one adds no row to any sheet.
C4_BatchAllOrNothing ==
    [][(resp'.op = "add_records" /\ resp'.n >= 1 /\ resp'.status # 422) =>
        IF resp'.status = 200
        THEN LET sid == resp'.sheet_id
                 old == IF sid \in DOMAIN files THEN files[sid].values ELSE <<HEADER>>
                 new == files'[sid].values
             IN  /\ resp'.count = resp'.n
                 /\ Len(resp'.batch) = resp'.n
                 /\ Len(new) = Len(old) + resp'.n
                 /\ SubSeq(new, 1, Len(old)) = old
                 /\ \A i \in 1..resp'.n :
                       /\ SubSeq(new[Len(old) + i], 1, 4) =
                              <<resp'.batch[i].name, resp'.batch[i].klass,
                                resp'.batch[i].rollno, resp'.batch[i].subject>>
                       /\ new[Len(old) + i][5] = new[Len(old) + 1][5]
                       /\ new[Len(old) + i][5] # ""
                 /\ \A i \in DOMAIN files' \ {sid} :
                       files'[i].values \in {ValuesOf(files, i), <<HEADER>>}
        ELSE \A i \in DOMAIN files' :
                 files'[i].values \in {ValuesOf(files, i), <<HEADER>>}]_vars

\* Two different records, appended below the header.
C4_Witness ==
    /\ resp.op = "add_records" /\ resp.status = 200 /\ resp.n = 2
    /\ resp.batch[1] # resp.batch[2]
    /\ Len(files[resp.sheet_id].values) = 3
    /\ files[resp.sheet_id].values[1] = HEADER

\* C5: ensure_folder called twice returns the same id, and so does
\* ensure_sheet_in_folder with that id; after a successful data operation
\* the store holds exactly one target folder and exactly one target sheet
\* in it, the ones the operation used.
C5_Idempotent ==
    /\ \A f1 \in {f \in ensure_folder(files, 0) : f.ok} :
          /\ \A f2 \in {f \in ensure_folder(f1.fs, 0) : f.ok} :
                f2.id = f1.id /\ f2.fs = f1.fs
          /\ \A s1 \in {x \in ensure_sheet_in_folder(f1.fs, f1.id, 0) : x.ok} :
                \A s2 \in {x \in ensure_sheet_in_folder(s1.fs, f1.id, 0) : x.ok} :
                    s2.id = s1.id /\ s2.fs = s1.fs
    /\ (resp.op \in DataOps /\ resp.status = 200) =>
          /\ TargetFolders(files) = {resp.folder_id}
          /\ TargetSheets(files, resp.folder_id) = {resp.sheet_id}

\* A data operation that found both the folder and the sheet by listing.
C5_Witness ==
    /\ resp.op = "list_records" /\ resp.status = 200 /\ resp.calls = 3
    /\ TargetFolders(files) = {resp.folder_id}

\* C6: every sheet ensure_sheet_in_folder returns is inside the target
\* folder and has the header in row 1, so that the records appended to it
\* are the ones list_records returns.
C6_SheetHasHeader ==
    (resp.op \in DataOps /\ resp.sheet_id # 0) =>
        /\ resp.folder_id \in files[resp.sheet_id].parents
        /\ files[resp.sheet_id].values # <<>>
        /\ files[resp.sheet_id].values[1] = HEADER

\* C7: logout leaves auth_status false whatever was stored, and while the
\* slot is empty only a successful callback fills it: no other step does,
\* and auth_status answers false meanwhile.
C7_LogoutSticks ==
    [][/\ (resp'.op = "auth_logout" => ~Authenticated(OAUTH_CREDS'))
       /\ ((~OAUTH_CREDS.present
            /\ ~(resp'.op = "google_oauth_callback" /\ resp'.status = 200))
              => (/\ ~OAUTH_CREDS'.present
                  /\ ~Authenticated(OAUTH_CREDS')
                  /\ (resp'.op = "auth_status" => ~resp'.authenticated)))]_vars

\* A logout that discarded a valid credential.
C7_Witness ==
    resp.op = "auth_logout" /\ Valid(resp.pre) /\ ~Authenticated(OAUTH_CREDS)

\* C8: the resolver's order.  A valid stored credential is used as is; an
\* expired one with a refresh token is refreshed in place and used when the
\* refresh succeeds; otherwise the service account when configured, else
\* Unauthorized, and then the stored credential is left as it was.
C8_ResolverOrder ==
    (resp.op \in DataOps /\ resp.kind # "none") =>
        LET c == resp.pre
            refreshable == c.present /\ c.expired /\ c.refresh_token
        IN  /\ resp.refreshTried = (refreshable /\ ~(c.present /\ ~c.expired))
            /\ (c.present /\ ~c.expired)
                  => (resp.kind = "user" /\ OAUTH_CREDS = c)
            /\ (refreshable /\ resp.refreshOk)
                  => (/\ resp.kind = "user"
                      /\ OAUTH_CREDS = [c EXCEPT !.expired = FALSE])
            /\ (~(c.present /\ ~c.expired) /\ ~(refreshable /\ resp.refreshOk))
                  => (/\ resp.kind = IF sa_json THEN "sa" ELSE "unauthorized"
                      /\ OAUTH_CREDS = c)

\* A refresh that failed: the service account served the request and the
\* expired credential is still stored.
C8_Witness ==
    /\ resp.op \in DataOps /\ resp.refreshTried /\ ~resp.refreshOk
    /\ resp.kind = "sa" /\ OAUTH_CREDS.present /\ OAUTH_CREDS.expired

\* C9: two target folders, or two target sheets in one folder, exist only
\* after requests have overlapped; requests run one after another never
\* create a duplicate.
C9_DuplicatesNeedOverlap ==
    (\/ Cardinality(TargetFolders(files)) >= 2
     \/ \E f \in DOMAIN files : Cardinality(TargetSheets(files, f)) >= 2)
        => overlapped

\* Two target folders side by side.
C9_Witness == Cardinality(TargetFolders(files)) >= 2

\* C10: a client is built from None only in a request that a logout raced
\* with, and such a request exists: the check of line 54 passed and line
\* 55 then handed None to build().
C10_NoneOnlyAfterRace ==
    \A r \in Requests :
        (reqs[r].drive = "None" \/ reqs[r].sheets = "None") => reqs[r].raced

\* Past the check of line 54, at line 56, with a drive client built from None.
C10_Witness ==
    \E r \in Requests : reqs[r].pc = "L56" /\ reqs[r].drive = "None"

====
